---- MODULE Spec2Model ----
(***************************************************************************)
(* pycronner: an in-process recurring-job scheduler.                       *)
(*                                                                         *)
(* State machine of src/src/pycronner/_cronner.py: the schedule objects    *)
(* (SettableJobScheduler), the registration table and job list of Cronner, *)
(* the polling loop of Cronner.start and the threads RunnableJob.run       *)
(* starts.                                                                 *)
(***************************************************************************)
EXTENDS Integers, Sequences, FiniteSets, TLC

VARIABLES
    clock,      \* datetime.datetime.now(), see the time section
    specs,      \* heap of SettableJobScheduler objects; the index is the identity
    defs,       \* Cronner._job_definitions, in insertion order
    jobs,       \* Cronner._jobs, the RunnableJob list
    spawned,    \* per job: threads started by run() that have not reached JobStatus.start()
    active,     \* per job: start instants of the threads that are inside the handler
    pc,         \* position of the polling loop inside the sweep
    phase,      \* "config" before start(), "loop" inside the while loop, "crashed" after it re-raised
    custom,     \* Cronner._custom_scheduler is set
    lastEval,   \* the last due-check the polling loop made (history)
    schedCall,  \* the last call of start(), of do() or of a method of a SettableJobScheduler (history)
    err         \* exception class the last call raised to its caller, "" when it returned

vars == <<clock, specs, defs, jobs, spawned, active, pc, phase, custom, lastEval, schedCall, err>>

-----------------------------------------------------------------------------
(* Bounds *)

\* the clock stops advancing here
MaxClock == 2
\* threads of the jobs alive at the same time
MaxThreads == 2
\* SettableJobScheduler objects allocated
MaxSpecs == 2

-----------------------------------------------------------------------------
(* Time.  A datetime is the number of seconds since Monday 2024-01-01      *)
(* 00:00:00; all instants of the model lie in January 2024.                *)

Second(t) == t % 60
Minute(t) == (t \div 60) % 60
Hour(t) == (t \div 3600) % 24
Day(t) == (t \div 86400) + 1
\* datetime.weekday(): Monday is 0
Weekday(t) == (t \div 86400) % 7

\* datetime.datetime.min: earlier than every instant
DatetimeMin == 0 - 1

\* JobStatus.last_run_time is None or a datetime
None == <<>>
Some(t) == <<t>>

IntervalUnits == {"second", "minute", "hour", "day"}

\* datetime.timedelta(<unit>s = n) in seconds
timedelta(n, unit) ==
    CASE unit = "second" -> n
      [] unit = "minute" -> n * 60
      [] unit = "hour" -> n * 3600
      [] unit = "day" -> n * 86400

-----------------------------------------------------------------------------
(* SettableJobScheduler.  Every method is a function from the object to    *)
(* the object afterwards and the exception it raises ("" for none).        *)

\* name "" stands for None: the code only tests it with `not name` and
\* compares it with non-empty candidates
NewScheduler ==
    [name |-> "", second |-> {}, minute |-> {}, hour |-> {}, weekday |-> {},
     day |-> {}, is_sealed |-> FALSE, interval |-> 0, interval_unit |-> "",
     is_stop |-> FALSE, stop_until_time |-> DatetimeMin]

Ok(s) == [s |-> s, err |-> ""]
Raise(s, e) == [s |-> s, err |-> e]

_check_sealed(s) == IF s.is_sealed THEN "RuntimeError" ELSE ""

set_name(s, value) ==
    IF _check_sealed(s) # "" THEN Raise(s, _check_sealed(s))
    ELSE Ok([s EXCEPT !.name = value])

\* set.add on the five sets; seal() has replaced them by frozensets, which
\* have no add method
AddNoSealCheck(s, unit, v) == Ok([s EXCEPT ![unit] = @ \cup {v}])

add(s, unit, v) ==
    IF s.is_sealed THEN Raise(s, "AttributeError")
    ELSE Ok([s EXCEPT ![unit] = @ \cup {v}])

add_second(s, v) == add(s, "second", v)
add_minute(s, v) == add(s, "minute", v)
add_hour(s, v) == add(s, "hour", v)
add_weekday(s, v) == add(s, "weekday", v)
add_day(s, v) == add(s, "day", v)

StopAndUnschedule(s) ==
    Ok([s EXCEPT !.is_stop = TRUE, !.second = {}, !.interval = 0])

stop(s) == Ok([s EXCEPT !.is_stop = TRUE])

stop_until(s, until_time) == Ok([s EXCEPT !.stop_until_time = until_time])

seal(s) == Ok([s EXCEPT !.is_sealed = TRUE])

IsScheduledAnyway(s) == TRUE

is_scheduled(s) ==
    \/ s.second # {} \/ s.minute # {} \/ s.hour # {}
    \/ s.weekday # {} \/ s.day # {} \/ s.interval # 0

set_interval(s, interval, unit) ==
    IF _check_sealed(s) # "" THEN Raise(s, _check_sealed(s))
    ELSE IF s.interval_unit # "" /\ s.interval_unit # unit
    THEN Raise(s, "ValueError")
    ELSE Ok([s EXCEPT !.interval = interval, !.interval_unit = unit])

AtMatchesAlternative(s, time_now) ==
    \/ s.second = {} /\ s.minute = {} /\ s.hour = {} /\ s.day = {} /\ s.weekday = {}
    \/ Second(time_now) \in s.second
    \/ Minute(time_now) \in s.minute
    \/ Hour(time_now) \in s.hour
    \/ Day(time_now) \in s.day
    \/ Weekday(time_now) \in s.weekday

\* lines 143-149: the five (set, current value) checks
AtMatches(s, time_now) ==
    /\ ~(s.second # {} /\ Second(time_now) \notin s.second)
    /\ ~(s.minute # {} /\ Minute(time_now) \notin s.minute)
    /\ ~(s.hour # {} /\ Hour(time_now) \notin s.hour)
    /\ ~(s.day # {} /\ Day(time_now) \notin s.day)
    /\ ~(s.weekday # {} /\ Weekday(time_now) \notin s.weekday)

IntervalElapsedLate(s, time_now, last_run_time) ==
    IF last_run_time # None /\ s.interval > 0
    THEN ~(last_run_time[1] + timedelta(s.interval, s.interval_unit) >= time_now)
    ELSE TRUE

\* lines 151-161: TRUE when the interval check lets the job run
IntervalElapsed(s, time_now, last_run_time) ==
    IF last_run_time # None /\ s.interval > 0
    THEN ~(last_run_time[1] + timedelta(s.interval, s.interval_unit) > time_now)
    ELSE TRUE

ShouldRunExitNoStop(s, time_now, last_run_time) ==
    IF s.stop_until_time >= time_now THEN "stop_until"
    ELSE IF ~AtMatches(s, time_now) THEN "at"
    ELSE IF ~IntervalElapsed(s, time_now, last_run_time) THEN "interval"
    ELSE "run"

ShouldRunExitStrictUntil(s, time_now, last_run_time) ==
    IF s.is_stop THEN "stop"
    ELSE IF s.stop_until_time > time_now THEN "stop_until"
    ELSE IF ~AtMatches(s, time_now) THEN "at"
    ELSE IF ~IntervalElapsed(s, time_now, last_run_time) THEN "interval"
    ELSE "run"

\* the return statement should_run leaves by when datetime.now() is
\* time_now: lines 137, 141, 149, 161 and 163
ShouldRunExit(s, time_now, last_run_time) ==
    IF s.is_stop THEN "stop"
    ELSE IF s.stop_until_time >= time_now THEN "stop_until"
    ELSE IF ~AtMatches(s, time_now) THEN "at"
    ELSE IF ~IntervalElapsed(s, time_now, last_run_time) THEN "interval"
    ELSE "run"

\* the value should_run returns
should_run(s, time_now, last_run_time) ==
    ShouldRunExit(s, time_now, last_run_time) = "run"

-----------------------------------------------------------------------------
(* Handlers: the callables the caller registers.                           *)

\* the handlers of the scheduling runs
Handlers == {"f", "g"}

\* the handlers of the naming runs
AllHandlers == {"f", "g", "h"}

\* handler.__code__.co_argcount: f takes the RuntimeService, the others nothing
co_argcount(h) == IF h = "f" THEN 1 ELSE 0

\* what the body of the handler does when it is called: g raises, f returns
Raises(h) == h = "g"

\* the body of h is a loop that never ends
Hangs(h) == h = "h"

\* handler.__module__ and handler.__name__: f and g are two functions of
\* module m that were both defined as `job`, h is m.tick
ModuleOf(h) == "m"
NameOf(h) == IF h = "h" THEN "tick" ELSE "job"

-----------------------------------------------------------------------------
(* RunnableJob *)

\* lines 306-313: the first of name, name:2, name:3, ... no sibling holds
CandidateName(name, index) ==
    IF index = 1 THEN name ELSE name \o ":" \o ToString(index)

RECURSIVE FirstFreeName(_, _, _)
FirstFreeName(name, taken, index) ==
    IF CandidateName(name, index) \in taken
    THEN FirstFreeName(name, taken, index + 1)
    ELSE CandidateName(name, index)

CreateHandleNameUnchecked(h, sp, schedulers) == ModuleOf(h) \o ":" \o NameOf(h)

\* schedulers: the identities of the specs of the registration table
_create_handle_name(h, sp, schedulers) ==
    FirstFreeName(ModuleOf(h) \o ":" \o NameOf(h),
                  {sp[x].name : x \in schedulers}, 1)

\* RunnableJob.__init__ after the is_scheduled test: the object and its JobStatus
NewRunnableJob(h, sid, custom_scheduler) ==
    [handler |-> h, spec |-> sid, has_parameter |-> co_argcount(h) > 0,
     custom_scheduler |-> custom_scheduler,
     is_running |-> FALSE, last_run_time |-> None]

\* the spec after lines 256-260, or the exception set_name raises
NameAndSeal(h, sp, sid, schedulers) ==
    LET named == IF sp[sid].name = ""
                 THEN set_name(sp[sid], _create_handle_name(h, sp, schedulers))
                 ELSE Ok(sp[sid])
    IN  IF named.err # "" THEN named ELSE seal(named.s)

\* the for loop of start(), lines 396-398, from the i-th registration on
RECURSIVE Finalize(_, _, _, _, _)
Finalize(i, table, sp, jb, cs) ==
    IF i > Len(table) THEN [specs |-> sp, jobs |-> jb, err |-> ""]
    ELSE IF ~is_scheduled(sp[table[i].spec])
    THEN [specs |-> sp, jobs |-> jb, err |-> "ValueError"]
    ELSE LET r == NameAndSeal(table[i].handler, sp, table[i].spec,
                              {table[k].spec : k \in 1..Len(table)})
         IN  IF r.err # "" THEN [specs |-> sp, jobs |-> jb, err |-> r.err]
             ELSE Finalize(i + 1, table, [sp EXCEPT ![table[i].spec] = r.s],
                           Append(jb, NewRunnableJob(table[i].handler, table[i].spec, cs)),
                           cs)

\* what the custom scheduler can do when it is called
CustomVerdicts == {"true", "false", "raise"}

DueCheckNoVeto(job, s, time_now, verdict) ==
    IF job.is_running THEN [due |-> FALSE, custom |-> "none", why |-> "running"]
    ELSE IF ~should_run(s, time_now, job.last_run_time)
    THEN [due |-> FALSE, custom |-> "none",
          why |-> ShouldRunExit(s, time_now, job.last_run_time)]
    ELSE IF job.custom_scheduler
    THEN [due |-> verdict # "raise", custom |-> verdict, why |-> "custom"]
    ELSE [due |-> TRUE, custom |-> "none", why |-> "run"]

DueCheckCustomFirst(job, s, time_now, verdict) ==
    IF job.is_running THEN [due |-> FALSE, custom |-> "none", why |-> "running"]
    ELSE IF job.custom_scheduler
    THEN [due |-> verdict = "true" /\ should_run(s, time_now, job.last_run_time),
          custom |-> verdict, why |-> "custom"]
    ELSE IF ~should_run(s, time_now, job.last_run_time)
    THEN [due |-> FALSE, custom |-> "none",
          why |-> ShouldRunExit(s, time_now, job.last_run_time)]
    ELSE [due |-> TRUE, custom |-> "none", why |-> "run"]

\* RunnableJob.should_run, lines 264-274, when the custom scheduler would
\* answer `verdict`: the result and what the custom scheduler did
DueCheck(job, s, time_now, verdict) ==
    IF job.is_running THEN [due |-> FALSE, custom |-> "none", why |-> "running"]
    ELSE IF ~should_run(s, time_now, job.last_run_time)
    THEN [due |-> FALSE, custom |-> "none",
          why |-> ShouldRunExit(s, time_now, job.last_run_time)]
    ELSE IF job.custom_scheduler
    THEN [due |-> verdict = "true", custom |-> verdict, why |-> "custom"]
    ELSE [due |-> TRUE, custom |-> "none", why |-> "run"]

-----------------------------------------------------------------------------
(* Cronner: registration *)

Registered(table, h) == \E i \in 1..Len(table) : table[i].handler = h

\* Cronner._get_or_add_job: the heap, the table and the spec of `action`
_get_or_add_job(sp, table, action) ==
    IF Registered(table, action)
    THEN [specs |-> sp, defs |-> table,
          sid |-> table[CHOOSE i \in 1..Len(table) : table[i].handler = action].spec]
    ELSE [specs |-> Append(sp, NewScheduler),
          defs |-> Append(table, [handler |-> action, spec |-> Len(sp) + 1]),
          sid |-> Len(sp) + 1]

CanRegister(h) == Registered(defs, h) \/ Len(specs) < MaxSpecs

\* values the registrations of the scheduling runs pass to at(second=...)
\* and to every(...)
AtSeconds == {1}
EveryMagnitudes == {1}

\* @cronner.at(<unit> = v) applied to handler h
CronnerAt(h, unit, v) ==
    /\ phase = "config"
    /\ CanRegister(h)
    /\ LET r == _get_or_add_job(specs, defs, h)
           res == add(r.specs[r.sid], unit, v)
       IN  /\ specs' = [r.specs EXCEPT ![r.sid] = res.s]
           /\ defs' = r.defs
           /\ err' = res.err
    /\ UNCHANGED <<clock, jobs, spawned, active, pc, phase, custom, lastEval, schedCall>>

\* @cronner.every(n).<unit> applied to handler h
CronnerEvery(h, n, unit) ==
    /\ phase = "config"
    /\ CanRegister(h)
    /\ LET r == _get_or_add_job(specs, defs, h)
           res == set_interval(r.specs[r.sid], n, unit)
       IN  /\ specs' = [r.specs EXCEPT ![r.sid] = res.s]
           /\ defs' = r.defs
           /\ err' = res.err
    /\ UNCHANGED <<clock, jobs, spawned, active, pc, phase, custom, lastEval, schedCall>>

\* cronner.do(h): the entry of h in the table, made when there is none;
\* nothing in it looks at whether start() has been called
CronnerDo(h) ==
    /\ CanRegister(h)
    /\ LET r == _get_or_add_job(specs, defs, h)
       IN  /\ specs' = r.specs
           /\ defs' = r.defs
           /\ schedCall' = [op |-> "do", sid |-> r.sid, unit |-> "", value |-> 0]
    /\ err' = ""
    /\ UNCHANGED <<clock, jobs, spawned, active, pc, phase, custom, lastEval>>

\* @cronner.register_custom_scheduler applied to a one-parameter callable
RegisterCustomScheduler ==
    /\ phase = "config"
    /\ ~custom
    /\ custom' = TRUE
    /\ err' = ""
    /\ UNCHANGED <<clock, specs, defs, jobs, spawned, active, pc, phase, lastEval, schedCall>>

-----------------------------------------------------------------------------
(* Cronner.start *)

NoThreads(n) == [i \in 1..n |-> 0]
NoActive(n) == [i \in 1..n |-> <<>>]

\* lines 396-400 and the entry into the while loop; an exception of the
\* for loop leaves start() with the jobs built so far and the table intact
Start ==
    /\ phase = "config"
    /\ LET r == Finalize(1, defs, specs, jobs, custom)
       IN  /\ specs' = r.specs
           /\ jobs' = r.jobs
           /\ spawned' = spawned \o NoThreads(Len(r.jobs) - Len(jobs))
           /\ active' = active \o NoActive(Len(r.jobs) - Len(jobs))
           /\ err' = r.err
           /\ IF r.err = ""
              THEN defs' = <<>> /\ phase' = "loop" /\ pc' = 1
              ELSE UNCHANGED <<defs, phase, pc>>
    /\ schedCall' = [op |-> "start", sid |-> 0, unit |-> "", value |-> 0]
    /\ UNCHANGED <<clock, custom, lastEval>>

DispatchWhenAllIdle(j, due) ==
    IF due /\ \A i \in 1..Len(jobs) : ~jobs[i].is_running
    THEN [spawned EXCEPT ![j] = @ + 1]
    ELSE spawned

\* RunnableJob.run: the thread exists, _run_internal has not begun
Dispatch(j, due) == IF due THEN [spawned EXCEPT ![j] = @ + 1] ELSE spawned

RECURSIVE ThreadsUpTo(_)
ThreadsUpTo(j) ==
    IF j = 0 THEN 0 ELSE spawned[j] + Len(active[j]) + ThreadsUpTo(j - 1)

\* the threads run() has started that have not left _run_internal
Threads == ThreadsUpTo(Len(jobs))

LoopStepSwallows(verdict) ==
    /\ phase = "loop"
    /\ pc \in 1..Len(jobs)
    /\ LET chk == DueCheck(jobs[pc], specs[jobs[pc].spec], clock, verdict)
       IN  /\ chk.due => Threads < MaxThreads
           /\ spawned' = Dispatch(pc, chk.due)
           /\ lastEval' = [job |-> pc, custom |-> chk.custom, why |-> chk.why,
                           dispatched |-> chk.due]
           /\ phase' = phase /\ pc' = pc + 1 /\ err' = err
    /\ UNCHANGED <<clock, specs, defs, jobs, active, custom, schedCall>>

\* lines 403-408 for one item of self._jobs: the due-check, run() when it
\* passes, and the re-raise when the custom scheduler raises
LoopStep(verdict) ==
    /\ phase = "loop"
    /\ pc \in 1..Len(jobs)
    /\ LET chk == DueCheck(jobs[pc], specs[jobs[pc].spec], clock, verdict)
       IN  /\ chk.due => Threads < MaxThreads
           /\ spawned' = Dispatch(pc, chk.due)
           /\ lastEval' = [job |-> pc, custom |-> chk.custom, why |-> chk.why,
                           dispatched |-> chk.due]
           /\ IF chk.custom = "raise"
              THEN phase' = "crashed" /\ pc' = 0 /\ err' = "Exception"
              ELSE phase' = phase /\ pc' = pc + 1 /\ err' = err
    /\ UNCHANGED <<clock, specs, defs, jobs, active, custom, schedCall>>

\* line 410 after a full sweep: time.sleep(1), then the next sweep
LoopSleep ==
    /\ phase = "loop"
    /\ pc = Len(jobs) + 1
    /\ clock < MaxClock
    /\ clock' = clock + 1
    /\ pc' = 1
    /\ UNCHANGED <<specs, defs, jobs, spawned, active, phase, custom, lastEval, err, schedCall>>

\* time passes while a sweep or a thread is under way
Tick ==
    /\ phase # "config"
    /\ clock < MaxClock
    /\ clock' = clock + 1
    /\ UNCHANGED <<specs, defs, jobs, spawned, active, pc, phase, custom, lastEval, err, schedCall>>

-----------------------------------------------------------------------------
(* The thread of RunnableJob._run_internal *)

\* JobStatus.start
JobStatusStart(job, now) == [job EXCEPT !.is_running = TRUE, !.last_run_time = Some(now)]

JobStatusStopSkipped(job) == job

\* JobStatus.stop
JobStatusStop(job) == [job EXCEPT !.is_running = FALSE]

RemoveAt(seq, k) == SubSeq(seq, 1, k - 1) \o SubSeq(seq, k + 1, Len(seq))

\* line 283: the thread of job j begins
UnitStart(j) ==
    /\ j \in 1..Len(jobs)
    /\ spawned[j] > 0
    /\ spawned' = [spawned EXCEPT ![j] = @ - 1]
    /\ active' = [active EXCEPT ![j] = Append(@, clock)]
    /\ jobs' = [jobs EXCEPT ![j] = JobStatusStart(@, clock)]
    /\ UNCHANGED <<clock, specs, defs, pc, phase, custom, lastEval, err, schedCall>>

\* the handler calls RuntimeService.stop
HandlerStop(j) ==
    /\ j \in 1..Len(jobs)
    /\ active[j] # <<>>
    /\ jobs[j].has_parameter
    /\ specs' = [specs EXCEPT ![jobs[j].spec] = stop(@).s]
    /\ UNCHANGED <<clock, defs, jobs, spawned, active, pc, phase, custom, lastEval, err, schedCall>>

\* the handler calls RuntimeService.stop_until(until_time)
HandlerStopUntil(j, until_time) ==
    /\ j \in 1..Len(jobs)
    /\ active[j] # <<>>
    /\ jobs[j].has_parameter
    /\ specs' = [specs EXCEPT ![jobs[j].spec] = stop_until(@, until_time).s]
    /\ UNCHANGED <<clock, defs, jobs, spawned, active, pc, phase, custom, lastEval, err, schedCall>>

\* the handler calls RuntimeService.stop_for(for_time)
HandlerStopFor(j, for_time) ==
    /\ j \in 1..Len(jobs)
    /\ active[j] # <<>>
    /\ jobs[j].has_parameter
    /\ specs' = [specs EXCEPT ![jobs[j].spec] = stop_until(@, clock + for_time).s]
    /\ UNCHANGED <<clock, defs, jobs, spawned, active, pc, phase, custom, lastEval, err, schedCall>>

\* lines 289-293: the thread that started k-th among the active ones of job
\* j leaves the handler, through `except` when the handler raised, and
\* reaches JobStatus.stop in `finally`
UnitExit(j, k, raised) ==
    /\ j \in 1..Len(jobs)
    /\ k \in 1..Len(active[j])
    /\ ~Hangs(jobs[j].handler)
    /\ Raises(jobs[j].handler) = raised
    /\ active' = [active EXCEPT ![j] = RemoveAt(@, k)]
    /\ jobs' = [jobs EXCEPT ![j] = JobStatusStop(@)]
    /\ UNCHANGED <<clock, specs, defs, spawned, pc, phase, custom, lastEval, err, schedCall>>

UnitReturn(j, k) == UnitExit(j, k, FALSE)

UnitRaise(j, k) == UnitExit(j, k, TRUE)

-----------------------------------------------------------------------------
(* The scheduler from construction on *)

Init ==
    /\ clock = 0
    /\ specs = <<>>
    /\ defs = <<>>
    /\ jobs = <<>>
    /\ spawned = <<>>
    /\ active = <<>>
    /\ pc = 0
    /\ phase = "config"
    /\ custom = FALSE
    /\ lastEval = [job |-> 0, custom |-> "none", why |-> "", dispatched |-> FALSE]
    /\ schedCall = [op |-> "", sid |-> 0, unit |-> "", value |-> 0]
    /\ err = ""

JobIds == 1..MaxSpecs

\* the instants handlers pass to stop_until
StopUntilTimes == {1}

Next ==
    \/ \E h \in Handlers, v \in AtSeconds : CronnerAt(h, "second", v)
    \/ \E h \in Handlers, n \in EveryMagnitudes : CronnerEvery(h, n, "second")
    \/ RegisterCustomScheduler
    \/ Start
    \/ \E verdict \in CustomVerdicts : LoopStep(verdict)
    \/ LoopSleep
    \/ Tick
    \/ \E j \in JobIds : UnitStart(j)
    \/ \E j \in JobIds : HandlerStop(j)
    \/ \E j \in JobIds, t \in StopUntilTimes : HandlerStopUntil(j, t)
    \/ \E j \in JobIds : HandlerStopFor(j, 1)
    \/ \E j \in JobIds, k \in 1..MaxThreads : UnitReturn(j, k)
    \/ \E j \in JobIds, k \in 1..MaxThreads : UnitRaise(j, k)

Spec == Init /\ [][Next]_vars

-----------------------------------------------------------------------------
(* The due-check on its own: a started scheduler with one job, met at an   *)
(* instant of January 2024 with a sealed spec and a last run time that an   *)
(* earlier part of the run left behind.                                     *)

MatchSeconds == {0, 5}
MatchMinutes == {0, 30}
MatchHours == {0, 9}
\* Monday the 1st, Tuesday the 2nd, Monday the 8th
MatchDays == {1, 2, 8}
MatchWeekdays == {0, 1}

MatchInstants ==
    {(d - 1) * 86400 + h * 3600 + m * 60 + s :
        d \in MatchDays, h \in MatchHours, m \in MatchMinutes, s \in MatchSeconds}

\* magnitudes of the intervals of the due-check runs
MatchMagnitudes == {1, 5}

\* the state after start() of a scheduler whose only registration is
\* handler h with spec s, once the job's last run time is `last`
Started(h, s, now, last) ==
    /\ clock = now
    /\ specs = <<[s EXCEPT !.name = "m:job", !.is_sealed = TRUE]>>
    /\ defs = <<>>
    /\ jobs = <<[NewRunnableJob(h, 1, FALSE) EXCEPT !.last_run_time = last]>>
    /\ spawned = <<0>>
    /\ active = <<<<>>>>
    /\ pc = 1
    /\ phase = "loop"
    /\ custom = FALSE
    /\ lastEval = [job |-> 0, custom |-> "none", why |-> "", dispatched |-> FALSE]
    /\ schedCall = [op |-> "", sid |-> 0, unit |-> "", value |-> 0]
    /\ err = ""

InitMatch ==
    \/ \E sec \in SUBSET MatchSeconds, min \in SUBSET MatchMinutes,
          hr \in SUBSET MatchHours, dy \in SUBSET {1, 8}, wd \in SUBSET MatchWeekdays,
          now \in MatchInstants, h \in Handlers :
          /\ sec # {} \/ min # {} \/ hr # {} \/ dy # {} \/ wd # {}
          /\ Started(h, [NewScheduler EXCEPT !.second = sec, !.minute = min, !.hour = hr,
                                             !.day = dy, !.weekday = wd],
                     now, None)
    \/ \E n \in MatchMagnitudes, unit \in IntervalUnits, T \in {0, 59}, ran \in BOOLEAN,
          h \in Handlers :
          \* now is T, or one second before, at or after the end of the interval
          \E off \in {0, timedelta(n, unit) - 1, timedelta(n, unit), timedelta(n, unit) + 1} :
              Started(h, [NewScheduler EXCEPT !.interval = n, !.interval_unit = unit],
                      T + off, IF ran THEN Some(T) ELSE None)

NextMatch ==
    \/ \E verdict \in CustomVerdicts : LoopStep(verdict)
    \/ \E j \in JobIds : UnitStart(j)
    \/ \E j \in JobIds, k \in 1..MaxThreads : UnitReturn(j, k)
    \/ \E j \in JobIds, k \in 1..MaxThreads : UnitRaise(j, k)

SpecMatch == InitMatch /\ [][NextMatch]_vars

-----------------------------------------------------------------------------
(* A SettableJobScheduler on its own: the object right after construction  *)
(* and the methods called on it directly.                                  *)

InitSched ==
    /\ clock = 0
    /\ specs = <<NewScheduler>>
    /\ defs = <<>>
    /\ jobs = <<>>
    /\ spawned = <<>>
    /\ active = <<>>
    /\ pc = 0
    /\ phase = "config"
    /\ custom = FALSE
    /\ lastEval = [job |-> 0, custom |-> "none", why |-> "", dispatched |-> FALSE]
    /\ schedCall = [op |-> "", sid |-> 0, unit |-> "", value |-> 0]
    /\ err = ""

\* the method called on object sid returned or raised as `res` says
Called(sid, res, op, unit, value) ==
    /\ sid \in 1..Len(specs)
    /\ specs' = [specs EXCEPT ![sid] = res.s]
    /\ err' = res.err
    /\ schedCall' = [op |-> op, sid |-> sid, unit |-> unit, value |-> value]
    /\ UNCHANGED <<clock, defs, jobs, spawned, active, pc, phase, custom, lastEval>>

\* add_second, add_minute, add_hour, add_day or add_weekday
SchedAdd(sid, unit, v) ==
    /\ sid \in 1..Len(specs)
    /\ Called(sid,
              CASE unit = "second" -> add_second(specs[sid], v)
                [] unit = "minute" -> add_minute(specs[sid], v)
                [] unit = "hour" -> add_hour(specs[sid], v)
                [] unit = "day" -> add_day(specs[sid], v)
                [] unit = "weekday" -> add_weekday(specs[sid], v),
              "add", unit, v)

SchedSetInterval(sid, n, unit) ==
    /\ sid \in 1..Len(specs)
    /\ Called(sid, set_interval(specs[sid], n, unit), "set_interval", unit, n)

SchedSeal(sid) ==
    /\ sid \in 1..Len(specs)
    /\ Called(sid, seal(specs[sid]), "seal", "", 0)

\* the values and magnitudes of the direct calls
SchedValues == {1}
SchedMagnitudes == {1, 2}

NextSched ==
    \/ \E u \in {"second", "minute", "hour", "day", "weekday"}, v \in SchedValues :
          SchedAdd(1, u, v)
    \/ \E n \in SchedMagnitudes, u \in IntervalUnits : SchedSetInterval(1, n, u)
    \/ SchedSeal(1)

SpecSched == InitSched /\ [][NextSched]_vars

-----------------------------------------------------------------------------
(* start() on its own: registration tables whose entries carry a name set   *)
(* with @cronner.name or none, every entry scheduled with every(1).second. *)

\* "" is a registration without @cronner.name
TableNames == {"", "a", "m:job", "m:job:2"}

RECURSIVE Tables(_)
\* the tables of n registrations of distinct handlers
Tables(n) ==
    IF n = 0 THEN {<<>>}
    ELSE {Append(tb, [handler |-> h, name |-> nm]) :
             tb \in Tables(n - 1), h \in AllHandlers, nm \in TableNames}

DistinctHandlers(tb) ==
    \A i, j \in 1..Len(tb) : i # j => tb[i].handler # tb[j].handler

InitNames ==
    \E n \in 0..Cardinality(AllHandlers) : \E tb \in Tables(n) :
        /\ DistinctHandlers(tb)
        /\ clock = 0
        /\ specs = [i \in 1..Len(tb) |->
                       [NewScheduler EXCEPT !.name = tb[i].name, !.interval = 1,
                                            !.interval_unit = "second"]]
        /\ defs = [i \in 1..Len(tb) |-> [handler |-> tb[i].handler, spec |-> i]]
        /\ jobs = <<>>
        /\ spawned = <<>>
        /\ active = <<>>
        /\ pc = 0
        /\ phase = "config"
        /\ custom = FALSE
        /\ lastEval = [job |-> 0, custom |-> "none", why |-> "", dispatched |-> FALSE]
            /\ schedCall = [op |-> "", sid |-> 0, unit |-> "", value |-> 0]
        /\ err = ""

NextNames == Start

SpecNames == InitNames /\ [][NextNames]_vars

-----------------------------------------------------------------------------
(* The caller's side of start(): handlers registered with cronner.do(h),    *)
(* scheduled afterwards with cronner.do(h).every(1).second(), and start()   *)
(* called again after it raised; the loop is followed through its first    *)
(* sweep.                                                                  *)

\* RunnableJob objects in Cronner._jobs
MaxJobs == 3

NextStart ==
    \/ \E h \in Handlers : CronnerDo(h)
    \/ \E sid \in JobIds, n \in EveryMagnitudes : SchedSetInterval(sid, n, "second")
    \/ Len(jobs) + Len(defs) <= MaxJobs /\ Start
    \/ \E verdict \in CustomVerdicts : LoopStep(verdict)
    \/ \E j \in 1..MaxJobs : UnitStart(j)
    \/ \E j \in 1..MaxJobs, k \in 1..MaxThreads : UnitReturn(j, k)
    \/ \E j \in 1..MaxJobs, k \in 1..MaxThreads : UnitRaise(j, k)

SpecStart == Init /\ [][NextStart]_vars

-----------------------------------------------------------------------------
(* The loop next to a handler that never returns: @cronner.every(1).second *)
(* on h, f and g, met in the first sweep when the thread of h is inside    *)
(* the handler.  The loop and the threads are scheduled fairly.            *)


\* the table after @cronner.every(1).second on the handlers of `order`
EveryTable(order) == [i \in 1..Len(order) |-> [handler |-> order[i], spec |-> i]]
EverySpecs(order) ==
    [i \in 1..Len(order) |->
        [NewScheduler EXCEPT !.interval = 1, !.interval_unit = "second"]]

\* h, f and g registered in any order; start() has built the jobs, the
\* first sweep has come to the job after h, the thread of h is inside the
\* handler and the threads of the jobs before h have come and gone
InitFair ==
    \E order \in [1..3 -> AllHandlers] :
        /\ \A i, j \in 1..3 : i # j => order[i] # order[j]
        /\ LET r == Finalize(1, EveryTable(order), EverySpecs(order), <<>>, FALSE)
               p == CHOOSE i \in 1..3 : Hangs(order[i])
           IN  /\ specs = r.specs
               /\ jobs = [i \in 1..3 |->
                             IF i < p THEN JobStatusStop(JobStatusStart(r.jobs[i], 0))
                             ELSE IF i = p THEN JobStatusStart(r.jobs[i], 0)
                             ELSE r.jobs[i]]
               /\ active = [i \in 1..3 |-> IF i = p THEN <<0>> ELSE <<>>]
               /\ pc = p + 1
               /\ lastEval = [job |-> p, custom |-> "none", why |-> "run",
                              dispatched |-> TRUE]
        /\ clock = 0
        /\ defs = <<>>
        /\ spawned = <<0, 0, 0>>
        /\ phase = "loop"
        /\ custom = FALSE
        /\ schedCall = [op |-> "start", sid |-> 0, unit |-> "", value |-> 0]
        /\ err = ""

LoopStepAny == \E verdict \in CustomVerdicts : LoopStep(verdict)

UnitExitAny(j) == \E k \in 1..MaxThreads : UnitReturn(j, k) \/ UnitRaise(j, k)

NextFair ==
    \/ LoopStepAny
    \/ LoopSleep
    \/ \E j \in 1..MaxJobs : UnitStart(j)
    \/ \E j \in 1..MaxJobs : UnitExitAny(j)

\* the loop is a running thread and so is every thread run() started
SpecFair ==
    /\ InitFair
    /\ [][NextFair]_vars
    /\ WF_vars(LoopStepAny)
    /\ WF_vars(LoopSleep)
    /\ \A j \in 1..MaxJobs : WF_vars(UnitStart(j)) /\ WF_vars(UnitExitAny(j))

-----------------------------------------------------------------------------
(* Properties of the scheduling runs *)

\* the step is lines 403-405 for the job at pc
LoopStepTaken == phase = "loop" /\ pc \in 1..Len(jobs) /\ pc' # pc

\* the step calls run() on job j
Dispatched(j) == spawned'[j] = spawned[j] + 1

InFlight(j) == spawned[j] + Len(active[j])

LastRunTimes == {None} \cup {Some(t) : t \in 0..MaxClock}

AtUnits == {"second", "minute", "hour", "day", "weekday"}

\* the current value of a unit at instant t
UnitNow(unit, t) ==
    CASE unit = "second" -> t % 60
      [] unit = "minute" -> (t \div 60) % 60
      [] unit = "hour" -> (t \div 3600) % 24
      [] unit = "day" -> (t \div 86400) + 1
      [] unit = "weekday" -> (t \div 86400) % 7

\* every unit's set is empty or holds the current value
SetsPass(s, t) == \A u \in AtUnits : s[u] = {} \/ UnitNow(u, t) \in s[u]

SecondsOf(unit) ==
    CASE unit = "second" -> 1
      [] unit = "minute" -> 60
      [] unit = "hour" -> 3600
      [] unit = "day" -> 86400

\* the job never ran, has no interval, or the interval has elapsed at t
IntervalPass(s, t, last) ==
    \/ last = None
    \/ s.interval <= 0
    \/ t >= last[1] + s.interval * SecondsOf(s.interval_unit)

\* C5: for a job that is idle, not stopped, past its stop_until_time and
\* without interval, the loop calls run() exactly when each of the five
\* sets is empty or holds the current value of its unit
WildcardConjunction ==
    [][LoopStepTaken =>
          LET job == jobs[pc]
              s == specs[job.spec]
          IN  (/\ ~job.is_running /\ ~job.custom_scheduler
               /\ ~s.is_stop /\ s.stop_until_time < clock
               /\ s.interval = 0)
              => (Dispatched(pc) <=> SetsPass(s, clock))]_vars

\* the hour matched and the minute did not: the job was left out
HourMatchedMinuteDidNot ==
    /\ lastEval.job = 1 /\ pc = 2
    /\ lastEval.why = "at"
    /\ ~lastEval.dispatched
    /\ specs[1].hour = {9} /\ UnitNow("hour", clock) = 9
    /\ specs[1].minute = {30} /\ UnitNow("minute", clock) # 30
    /\ specs[1].weekday = {0} /\ UnitNow("weekday", clock) = 0

\* C6: for an idle job with an interval of magnitude n > 0, empty sets, no
\* stop and no stop_until, evaluated at or after its last run time T, the
\* loop calls run() exactly when it never ran or now >= T + n * unit
IntervalBoundary ==
    [][LoopStepTaken =>
          LET job == jobs[pc]
              s == specs[job.spec]
          IN  (/\ ~job.is_running /\ ~job.custom_scheduler
               /\ ~s.is_stop /\ s.stop_until_time = DatetimeMin
               /\ \A u \in AtUnits : s[u] = {}
               /\ s.interval > 0
               /\ job.last_run_time # None => clock >= job.last_run_time[1])
              => (Dispatched(pc) <=>
                    \/ job.last_run_time = None
                    \/ clock >= job.last_run_time[1] + s.interval * SecondsOf(s.interval_unit))]_vars

\* the job was left out one second before the end of a five-minute interval
OneSecondEarly ==
    /\ lastEval.job = 1 /\ pc = 2
    /\ lastEval.why = "interval"
    /\ ~lastEval.dispatched
    /\ specs[1].interval = 5 /\ specs[1].interval_unit = "minute"
    /\ jobs[1].last_run_time # None
    /\ clock + 1 = jobs[1].last_run_time[1] + 300

\* C8: on a sealed spec every add_* call raises and leaves the five sets as
\* they were, and seal() returns and changes nothing
SealedSetsFrozen ==
    [][\A sid \in 1..Len(specs) : specs[sid].is_sealed =>
          /\ \A u \in AtUnits : specs'[sid][u] = specs[sid][u]
          /\ (schedCall'.op = "add" /\ schedCall'.sid = sid) => err' # ""
          /\ (schedCall'.op = "seal" /\ schedCall'.sid = sid) =>
                (err' = "" /\ specs'[sid] = specs[sid])]_vars

\* add_second on a sealed spec whose second set is empty was refused
AddAfterSealRefused ==
    /\ schedCall.op = "add" /\ schedCall.unit = "second" /\ schedCall.sid = 1
    /\ specs[1].is_sealed
    /\ specs[1].second = {} /\ specs[1].hour # {}
    /\ err # ""

\* C9: on an unsealed spec with an interval (m, u), set_interval(m2, u2)
\* with (m2, u2) different from (m, u) raises and leaves (m, u) in place
IntervalSetOnce ==
    [][\A sid \in 1..Len(specs) :
          (/\ schedCall'.op = "set_interval" /\ schedCall'.sid = sid
           /\ (specs' # specs \/ err' # err \/ schedCall' # schedCall)
           /\ specs[sid].interval_unit # "" /\ ~specs[sid].is_sealed
           /\ (schedCall'.value # specs[sid].interval
               \/ schedCall'.unit # specs[sid].interval_unit))
          => /\ err' # ""
             /\ specs'[sid].interval = specs[sid].interval
             /\ specs'[sid].interval_unit = specs[sid].interval_unit]_vars

\* C10: after start() has built the jobs, the names of their specs are
\* non-empty and pairwise distinct
NamesDistinct ==
    phase = "loop" =>
        \A i, j \in 1..Len(jobs) :
            /\ specs[jobs[i].spec].name # ""
            /\ i # j => specs[jobs[i].spec].name # specs[jobs[j].spec].name

\* the k-th of base, base:2, base:3, ...
Suffixed(base, k) == IF k = 1 THEN base ELSE base \o ":" \o ToString(k)

\* the names start() leaves no choice about when it names the i-th entry of
\* the table: the names set with @cronner.name and the names it gave to the
\* entries before the i-th
HeldBefore(i) ==
    ({specs[defs[k].spec].name : k \in 1..Len(defs)} \ {""})
        \cup {specs'[defs[k].spec].name : k \in 1..(i - 1)}

\* C11: when start() builds the jobs, an entry with a name keeps it, and an
\* entry without one gets, in table order, the first of base, base:2,
\* base:3, ... that is neither a name set with @cronner.name nor a name
\* given to an earlier entry
NamesInRegistrationOrder ==
    [][(phase = "config" /\ phase' = "loop") =>
          \A i \in 1..Len(defs) :
              LET sid == defs[i].spec
                  base == ModuleOf(defs[i].handler) \o ":" \o NameOf(defs[i].handler)
                  free == {k \in 1..(Len(defs) + 1) : Suffixed(base, k) \notin HeldBefore(i)}
              IN  IF specs[sid].name # ""
                  THEN specs'[sid].name = specs[sid].name
                  ELSE \E k \in free :
                          /\ \A k2 \in free : k <= k2
                          /\ specs'[sid].name = Suffixed(base, k)]_vars

\* m.tick was named m:job:2 by the caller; the two functions m.job around it
\* got m:job and m:job:3
SuffixSkipsExplicitName ==
    /\ phase = "loop"
    /\ Len(jobs) = 3
    /\ jobs[1].handler = "f" /\ specs[jobs[1].spec].name = "m:job"
    /\ jobs[2].handler = "h" /\ specs[jobs[2].spec].name = "m:job:2"
    /\ jobs[3].handler = "g" /\ specs[jobs[3].spec].name = "m:job:3"

\* the spec has nothing that says when to run
Unscheduled(s) == (\A u \in AtUnits : s[u] = {}) /\ s.interval = 0

NeverDispatched ==
    \A j \in 1..Len(jobs) :
        spawned[j] = 0 /\ active[j] = <<>> /\ jobs[j].last_run_time = None

\* C12: start() called while an entry of the table has five empty sets and
\* no interval raises ValueError and does not enter the loop, and as long
\* as start() has not entered the loop no thread of any job was started
StartNeedsSchedule ==
    /\ [](phase = "config" => NeverDispatched)
    /\ [][(/\ phase = "config"
           /\ schedCall'.op = "start"
           /\ \E i \in 1..Len(defs) : Unscheduled(specs[defs[i].spec]))
          => (err' = "ValueError" /\ phase' = "config" /\ pc' = pc)]_vars

\* start() built the job of the scheduled handler, then raised on the
\* handler registered after it, which has no schedule
StartRaisedOnSecondEntry ==
    /\ phase = "config"
    /\ schedCall.op = "start"
    /\ err = "ValueError"
    /\ Len(defs) = 2 /\ Len(jobs) = 1
    /\ specs[defs[1].spec].interval = 1
    /\ Unscheduled(specs[defs[2].spec])
    /\ NeverDispatched

\* what the job's own state and spec say at instant t
OwnDue(j, t) ==
    /\ ~jobs[j].is_running
    /\ ~specs[jobs[j].spec].is_stop
    /\ specs[jobs[j].spec].stop_until_time < t
    /\ SetsPass(specs[jobs[j].spec], t)
    /\ IntervalPass(specs[jobs[j].spec], t, jobs[j].last_run_time)

\* another job than j is inside a handler that never returns
OtherHangs(j) ==
    \E i \in 1..Len(jobs) :
        i # j /\ Hangs(jobs[i].handler) /\ jobs[i].is_running /\ active[i] # <<>>

\* C13: while another job is inside a handler that never returns, the loop
\* calls run() on a job exactly when that job's own state and spec say so,
\* and the loop always gets from one job to the next and from the end of a
\* sweep to the next sweep
FireAndForget ==
    /\ [][(LoopStepTaken /\ OtherHangs(pc)) =>
             (Dispatched(pc) <=> OwnDue(pc, clock))]_vars
    /\ \A k \in 1..(MaxJobs + 1) :
          (/\ phase = "loop" /\ pc = k /\ k <= Len(jobs) + 1
           /\ \E j \in 1..Len(jobs) : OtherHangs(j)
           /\ (k = Len(jobs) + 1 => clock < MaxClock))
          ~> (phase = "loop" /\ pc # k)

\* in a sweep after the first the third job was started again while the
\* second one was still inside its handler
DispatchedNextToHanging ==
    /\ clock >= 1
    /\ jobs[2].is_running /\ active[2] = <<0>> /\ Hangs(jobs[2].handler)
    /\ lastEval.job = 3 /\ lastEval.dispatched /\ pc = 4
    /\ spawned[3] = 1
    /\ jobs[3].last_run_time # None

\* C14: when the custom scheduler raises in the due-check of a job, the
\* loop ends with that exception without calling run() on the job; once the
\* loop has ended no job is evaluated and run() is called on none; a thread
\* that leaves a handler by an exception leaves the loop where it is
SweepErrorIsFatal ==
    [][/\ (LoopStepTaken /\ lastEval'.custom = "raise") =>
             (phase' = "crashed" /\ err' = "Exception" /\ ~Dispatched(pc))
       /\ phase = "crashed" =>
             /\ phase' = "crashed"
             /\ lastEval' = lastEval
             /\ \A j \in 1..Len(jobs) : spawned'[j] <= spawned[j]
       /\ \A j \in 1..Len(jobs) :
             (Len(active'[j]) < Len(active[j]) /\ Raises(jobs[j].handler)) =>
                 (phase' = phase /\ pc' = pc)]_vars

\* the custom scheduler raised for the first of two jobs in the first sweep:
\* a second later the second job, due since the start, was never evaluated
CrashedMidSweep ==
    /\ phase = "crashed"
    /\ err = "Exception"
    /\ lastEval.job = 1 /\ lastEval.custom = "raise" /\ ~lastEval.dispatched
    /\ Len(jobs) = 2
    /\ clock >= 1
    /\ jobs[1].last_run_time = None /\ InFlight(1) = 0
    /\ jobs[2].last_run_time = None /\ InFlight(2) = 0
    /\ OwnDue(2, clock)

\* C15: once start() has built the jobs and cleared the table, no call adds
\* an entry to the table and the list of jobs stays as it is
RegistrationClosed ==
    [][phase # "config" => (defs' = defs /\ Len(jobs') = Len(jobs))]_vars

\* C16: last_run_time changes only in a step that takes the job from not
\* running to running, and then to the instant of that step; a step that
\* takes the job from running to not running leaves it as it is; and the
\* job's own due-check passes again exactly from last_run_time plus the
\* interval on
StampedAtStartOnly ==
    [][\A j \in 1..Len(jobs) :
          /\ jobs'[j].last_run_time # jobs[j].last_run_time =>
                /\ ~jobs[j].is_running /\ jobs'[j].is_running
                /\ jobs'[j].last_run_time = Some(clock)
          /\ (jobs[j].is_running /\ ~jobs'[j].is_running) =>
                jobs'[j].last_run_time = jobs[j].last_run_time
          /\ (LoopStepTaken /\ pc = j /\ ~jobs[j].is_running /\ ~jobs[j].custom_scheduler
              /\ ~specs[jobs[j].spec].is_stop /\ specs[jobs[j].spec].stop_until_time < clock
              /\ SetsPass(specs[jobs[j].spec], clock) /\ jobs[j].last_run_time # None) =>
                (Dispatched(j) <=>
                    clock >= jobs[j].last_run_time[1]
                             + specs[jobs[j].spec].interval
                               * SecondsOf(specs[jobs[j].spec].interval_unit))]_vars

\* C17: in the due-check of a job the custom scheduler is called exactly
\* when one was registered before start(), the job is not running, its
\* spec is not stopped, the instant is past stop_until_time, the five sets
\* pass and the interval has elapsed
CustomCalledLast ==
    [][LoopStepTaken =>
          (lastEval'.custom # "none" <=>
              (jobs[pc].custom_scheduler /\ OwnDue(pc, clock)))]_vars

\* with a custom scheduler registered, a job was left out because its
\* interval had not elapsed and the custom scheduler was not called
CustomNotAskedInsideInterval ==
    /\ custom
    /\ lastEval.job # 0 /\ pc = lastEval.job + 1
    /\ jobs[lastEval.job].custom_scheduler
    /\ lastEval.why = "interval"
    /\ lastEval.custom = "none"
    /\ ~jobs[lastEval.job].is_running

\* C18: after start() a spec changes only while a thread of its job is
\* inside the handler, and then only in its stop flag, which becomes true,
\* or in its stop_until_time; the step leaves every other spec, every job's
\* running flag and last_run_time and every thread where they are; and a
\* thread that leaves the handler leaves the job not running, stopped or not
ControlFrame ==
    [][/\ (phase # "config" /\ specs' # specs) =>
             \E j \in 1..Len(jobs) :
                 LET sid == jobs[j].spec
                 IN  /\ active[j] # <<>>
                     /\ jobs[j].has_parameter
                     /\ \A x \in 1..Len(specs) : x # sid => specs'[x] = specs[x]
                     /\ \/ specs'[sid] = [specs[sid] EXCEPT !.is_stop = TRUE]
                        \/ \E t \in 0..(MaxClock + 1) :
                              specs'[sid] = [specs[sid] EXCEPT !.stop_until_time = t]
                     /\ jobs' = jobs /\ active' = active /\ spawned' = spawned
                     /\ pc' = pc /\ phase' = phase
       /\ \A j \in 1..Len(jobs) :
             Len(active'[j]) < Len(active[j]) => ~jobs'[j].is_running]_vars

\* the handler of the first job called stop() and stop_for() and is still
\* running; the schedule of its spec and the second job are as before
StoppedWhileRunning ==
    /\ Len(jobs) = 2
    /\ jobs[1].is_running /\ active[1] # <<>>
    /\ specs[jobs[1].spec].is_stop
    /\ specs[jobs[1].spec].stop_until_time = clock + 1
    /\ specs[jobs[1].spec].interval = 1 /\ specs[jobs[1].spec].second = {1}
    /\ specs[jobs[1].spec].is_sealed
    /\ ~specs[jobs[2].spec].is_stop
    /\ specs[jobs[2].spec].stop_until_time = DatetimeMin

\* C19: under fair scheduling a job with an interval and nothing else,
\* never stopped, whose handler returns or raises, is not running again
\* some time after it was running, and whenever none of its threads is in
\* flight before the clock has reached its bound, run() is called on it
\* again
EligibleAgain ==
    \A j \in 1..MaxJobs :
        /\ (j <= Len(jobs) /\ ~Hangs(jobs[j].handler) /\ jobs[j].is_running)
              ~> (j <= Len(jobs) /\ ~jobs[j].is_running)
        /\ (/\ j <= Len(jobs) /\ ~Hangs(jobs[j].handler)
            /\ InFlight(j) = 0 /\ clock < MaxClock)
              ~> (j <= Len(jobs) /\ spawned[j] > 0)

\* the handler that raises ran at second 0 and raised; a later sweep has
\* just called run() on its job again
DispatchedAgainAfterRaise ==
    \E j \in 1..Len(jobs) :
        /\ Raises(jobs[j].handler)
        /\ jobs[j].last_run_time = Some(0)
        /\ ~jobs[j].is_running /\ active[j] = <<>>
        /\ clock >= 1
        /\ lastEval.job = j /\ lastEval.dispatched /\ pc = j + 1
        /\ spawned[j] = 1

\* C20: no two jobs of the list have the same handler
OneJobPerHandler ==
    \A i, j \in 1..Len(jobs) : i # j => jobs[i].handler # jobs[j].handler

\* C1: at no time are two threads of one job in flight (started by run()
\* and not yet out of _run_internal)
NoOverlap == \A j \in 1..Len(jobs) : InFlight(j) <= 1

\* C2: when a thread leaves the handler by an exception, the job is not
\* running afterwards, its last_run_time is the instant that thread
\* started, and the polling loop goes on where it was
HandlerErrorAbsorbed ==
    [][\A j \in 1..Len(jobs) :
          (Len(active'[j]) < Len(active[j]) /\ Raises(jobs[j].handler)) =>
              /\ ~jobs'[j].is_running
              /\ \E k \in 1..Len(active[j]) :
                    /\ active'[j] = RemoveAt(active[j], k)
                    /\ jobs'[j].last_run_time = Some(active[j][k])
              /\ phase' = phase /\ pc' = pc]_vars

\* C3: once the stop flag of a spec is set it stays set, should_run is
\* false for every instant and every last run time, and no step calls
\* run() on a job of that spec
StopIsPermanent ==
    [][/\ \A sid \in 1..Len(specs) : specs[sid].is_stop =>
             /\ specs'[sid].is_stop
             /\ \A t \in 0..MaxClock, l \in LastRunTimes : ~should_run(specs'[sid], t, l)
       /\ \A j \in 1..Len(jobs) : specs[jobs[j].spec].is_stop => ~Dispatched(j)]_vars

\* a stopped job was evaluated by the loop and left out
StoppedJobSkipped ==
    /\ lastEval.job # 0
    /\ lastEval.why = "stop"
    /\ ~lastEval.dispatched
    /\ specs[jobs[lastEval.job].spec].is_stop
    /\ jobs[lastEval.job].last_run_time # None

\* C4: for a spec that is not stopped, should_run is false at every instant
\* up to and including stop_until_time and is what the sets and the interval
\* say at every later instant; the loop dispatches a job only at an instant
\* after its stop_until_time
StopUntilSuppresses ==
    [][/\ \A sid \in 1..Len(specs') : (specs' # specs /\ ~specs'[sid].is_stop) =>
             \A t \in 0..MaxClock, l \in LastRunTimes :
                 should_run(specs'[sid], t, l) <=>
                     /\ t > specs'[sid].stop_until_time
                     /\ SetsPass(specs'[sid], t)
                     /\ IntervalPass(specs'[sid], t, l)
       /\ (LoopStepTaken /\ Dispatched(pc)) =>
             specs[jobs[pc].spec].stop_until_time < clock]_vars

\* the loop left a job out at the very instant a handler passed to stop_until
SuppressedAtBoundary ==
    /\ lastEval.job # 0
    /\ lastEval.why = "stop_until"
    /\ pc = lastEval.job + 1
    /\ specs[jobs[lastEval.job].spec].stop_until_time = clock
    /\ ~specs[jobs[lastEval.job].spec].is_stop

\* C7: with a custom scheduler registered before start(), the loop calls
\* run() on a job exactly when the job is not running, its own should_run
\* is true and the custom scheduler answered true; without one, exactly when
\* the job is not running and its own should_run is true
CustomVeto ==
    [][LoopStepTaken =>
          LET job == jobs[pc]
              own == ~job.is_running
                     /\ should_run(specs[job.spec], clock, job.last_run_time)
          IN  /\ job.custom_scheduler = custom
              /\ IF custom
                 THEN Dispatched(pc) <=> (own /\ lastEval'.custom = "true")
                 ELSE Dispatched(pc) <=> own]_vars

\* the custom scheduler vetoed a job whose own should_run was true
VetoedWhileDue ==
    /\ lastEval.job # 0
    /\ lastEval.custom = "false"
    /\ ~lastEval.dispatched
    /\ custom

====
